---- MODULE Spec2Model ----
(***************************************************************************)
(* Model of src/functions/httpTrigger.ts: a scheduled job that reads the   *)
(* month's token usage per deployment, reconciles one Table Storage entity *)
(* per (deployment, month) and mails an alert the first time a deployment  *)
(* passes THRESHOLD.                                                       *)
(*                                                                         *)
(* Every await of the code is one step.  A store operation and the local   *)
(* computation that follows it, up to the next request, form one action    *)
(* taken at the moment the store serves the request.                       *)
(***************************************************************************)
EXTENDS Integers, Sequences, FiniteSets, TLC

\* ------------------------------------------------------------- bounds
NumInvocations == 2
MaxDelta == 1
\* Reconciliations started in one behaviour, all invocations together.
MaxTasks == 2

\* ---------------------------------------------------------- constants
THRESHOLD == 1000

Invocations == 1..NumInvocations
Deployments == {"gpt4dev", "gpt35"}
Months == {"2024-10"}
Tasks == Invocations \X Deployments

\* Daily totals of one deployment as the metric API reports them: the
\* sums range over THRESHOLD - MaxDelta .. THRESHOLD + MaxDelta.
DataSets == {<<THRESHOLD - MaxDelta, k>> : k \in 0..(2 * MaxDelta)}

\* Statuses of an HTTP error response of the metric API (axios rejects
\* exactly the responses outside 2xx).
HttpErrorStatuses == {404, 503}
\* Outcomes of the mail poller other than a throw.
MailStatuses == {"Succeeded", "Failed", "Canceled"}

VARIABLES
    store,      \* the table: rowKey -> entity, for the rowKeys that exist
    now,        \* the clock read by new Date()
    ipc,        \* invocation -> where httpTrigger stands
    source,     \* history: invocation -> how token and metric calls ended
    status,     \* invocation -> status returned (0: none yet)
    tpc,        \* task -> where evaluateTokenUsageForAlert stands
    key,        \* task -> rowKey
    sumToken,   \* task -> argument sumToken
    entity,     \* task -> local variable entity
    err,        \* task -> what the outer catch logged
    mails,      \* task -> number of sendMail calls made
    result,     \* history: task -> what sendMail returned
    sent,       \* history: rowKeys for which a sendMail returned "Succeeded"
    seen,       \* history: task -> what getEntity answered
    prior,      \* history: task -> stored entity when the task began
    probe       \* a call of shouldSendAlert on its own: arguments and answer

vars == <<store, now, ipc, source, status, tpc, key, sumToken, entity, err,
          mails, result, sent, seen, prior, probe>>

invVars == <<ipc, source, status, probe>>
taskVars == <<tpc, key, sumToken, entity, err, mails, result, seen, prior, probe>>

Null == [null |-> TRUE]

\* getEntity answered 404
NotFound == [statusCode |-> 404]

RowKeyMonthOnly(deploymentName, month) == month
\* const rowKey = `${deploymentName}-${month}`
RowKey(deploymentName, month) == deploymentName \o "-" \o month

RowKeys == {RowKey(d, m) : d \in Deployments, m \in Months}

\* data.reduce((sum, d) => sum + d.total, 0)
RECURSIVE SumTotal(_)
SumTotal(data) ==
    IF data = <<>> THEN 0 ELSE SumTotal(Tail(data)) + Head(data)

ShouldSendAlertNoFlag(e, n) == n > THRESHOLD
ShouldSendAlertAtThreshold(e, n) ==
    ~(IF e = Null THEN FALSE ELSE e.ActionDone) /\ n >= THRESHOLD
\* return !entity?.ActionDone && sumToken > THRESHOLD
shouldSendAlert(e, n) ==
    ~(IF e = Null THEN FALSE ELSE e.ActionDone) /\ n > THRESHOLD

\* The record the store holds under a rowKey, Null when there is none.
Stored(k) == IF k \in DOMAIN store THEN store[k] ELSE Null

NewEntityZero(k, n, t) ==
    [partitionKey |-> "DeploymentType", rowKey |-> k, SumToken |-> 0,
     ActionDone |-> FALSE, LastUpdated |-> t]
\* the entity synthesized after a 404
NewEntity(k, n, t) ==
    [partitionKey |-> "DeploymentType", rowKey |-> k, SumToken |-> n,
     ActionDone |-> FALSE, LastUpdated |-> t]

MergeEntityKeepStored(old, new) ==
    [f \in DOMAIN old \cup DOMAIN new |->
        IF f \in DOMAIN old THEN old[f] ELSE new[f]]
\* updateEntity(entity) in its default mode "Merge" with etag "*": the
\* properties sent replace those stored, whatever was stored meanwhile.
MergeEntity(old, new) ==
    [f \in DOMAIN old \cup DOMAIN new |->
        IF f \in DOMAIN new THEN new[f] ELSE old[f]]

\* updateEntity answered: the table after the write.
UpdateEntity(st, e) == [st EXCEPT ![e.rowKey] = MergeEntity(@, e)]

SumTokenStepAtLeast(e, n, clk) ==
    IF n >= e.SumToken
    THEN [pc |-> "updateSum", now |-> clk + 1, mail |-> 0,
          entity |-> [e EXCEPT !.SumToken = n, !.LastUpdated = clk]]
    ELSE [pc |-> "done", now |-> clk, mail |-> 0, entity |-> e]
\* Lines 97-101 up to the request: what the task does next with local
\* entity e, argument n and clock clk.
SumTokenStep(e, n, clk) ==
    IF n > e.SumToken
    THEN [pc |-> "updateSum", now |-> clk + 1, mail |-> 0,
          entity |-> [e EXCEPT !.SumToken = n, !.LastUpdated = clk]]
    ELSE [pc |-> "done", now |-> clk, mail |-> 0, entity |-> e]

AlertStepStored(e, n, clk) ==
    IF shouldSendAlert(e, e.SumToken)
    THEN [pc |-> "send", now |-> clk, mail |-> 1, entity |-> e]
    ELSE SumTokenStep(e, n, clk)
\* Lines 83-95 up to the request: sendMail is called when the policy says
\* so, otherwise the task goes on to the SumToken check.
AlertStep(e, n, clk) ==
    IF shouldSendAlert(e, n)
    THEN [pc |-> "send", now |-> clk, mail |-> 1, entity |-> e]
    ELSE SumTokenStep(e, n, clk)

\* The task goes on as r says.
Proceed(t, r) ==
    /\ tpc' = [tpc EXCEPT ![t] = r.pc]
    /\ entity' = [entity EXCEPT ![t] = r.entity]
    /\ mails' = [mails EXCEPT ![t] = @ + r.mail]
    /\ now' = r.now

CaughtRetry(t, what) ==
    /\ tpc' = [tpc EXCEPT ![t] = "get"]
    /\ err' = [err EXCEPT ![t] = what]
    /\ UNCHANGED <<entity, mails, now>>
\* catch (error) { console.error(...) } of evaluateTokenUsageForAlert
Caught(t, what) ==
    /\ tpc' = [tpc EXCEPT ![t] = "failed"]
    /\ err' = [err EXCEPT ![t] = what]
    /\ UNCHANGED <<entity, mails, now>>

\* Totals a deployment can show within the bounds.
Usages == (THRESHOLD - MaxDelta)..(THRESHOLD + MaxDelta)

\* Tables that earlier invocations of the month can have left: any set of
\* rowKeys, each with any total seen and either alert flag (the flag is
\* set with a low total when the update of line 100 failed).
InitialStores ==
    UNION {[ks -> Usages \X BOOLEAN] : ks \in SUBSET RowKeys}

\* The state of a fresh process over the table st.
InitOver(st) ==
    /\ store = [k \in DOMAIN st |->
                  [NewEntity(k, st[k][1], 0) EXCEPT !.ActionDone = st[k][2]]]
    /\ now = 1
    /\ ipc = [i \in Invocations |-> "idle"]
    /\ source = [i \in Invocations |-> "none"]
    /\ status = [i \in Invocations |-> 0]
    /\ tpc = [t \in Tasks |-> "none"]
    /\ key = [t \in Tasks |-> ""]
    /\ sumToken = [t \in Tasks |-> 0]
    /\ entity = [t \in Tasks |-> Null]
    /\ err = [t \in Tasks |-> "none"]
    /\ mails = [t \in Tasks |-> 0]
    /\ result = [t \in Tasks |-> "none"]
    /\ sent = {k \in DOMAIN store : store[k].ActionDone}
    /\ seen = [t \in Tasks |-> Null]
    /\ prior = [t \in Tasks |-> Null]

Init ==
    /\ \E st \in InitialStores : InitOver(st)
    /\ probe = Null

\* The trigger fires: httpTrigger starts and asks for the access token.
Begin(i) ==
    /\ ipc[i] = "idle"
    /\ ipc' = [ipc EXCEPT ![i] = "token"]
    /\ UNCHANGED <<store, now, source, status, sent>>
    /\ UNCHANGED taskVars

\* The same, when no other invocation is under way.
BeginAlone(i) ==
    /\ \A j \in Invocations \ {i} : ipc[j] \in {"idle", "returned"}
    /\ Begin(i)

ErrorStatusDefaultOk(error) ==
    IF error = Null \/ error.status = 0 THEN 200 ELSE error.status
\* status: error.response?.status || 500
ErrorStatus(error) ==
    IF error = Null \/ error.status = 0 THEN 500 ELSE error.status

\* catch (error) of httpTrigger
Fatal(i, error) ==
    /\ ipc' = [ipc EXCEPT ![i] = "returned"]
    /\ status' = [status EXCEPT ![i] = ErrorStatus(error)]
    /\ source' = [source EXCEPT ![i] = "failed"]
    /\ UNCHANGED <<store, now, sent>>
    /\ UNCHANGED taskVars

\* await credential.getToken(...)
GetToken(i) ==
    /\ ipc[i] = "token"
    /\ \/ /\ ipc' = [ipc EXCEPT ![i] = "fetch"]
          /\ UNCHANGED <<store, now, source, status, sent>>
          /\ UNCHANGED taskVars
       \/ Fatal(i, Null)

\* Reconciliations started so far.
Started == Cardinality({t \in Tasks : tpc[t] # "none"})

\* The map callback of lines 152-159 for every listed deployment, each up
\* to its first await (the getEntity request).
StartTasks(i, month, resp) ==
    /\ tpc' = [t \in Tasks |->
                IF t[1] = i /\ t[2] \in DOMAIN resp THEN "get" ELSE tpc[t]]
    /\ key' = [t \in Tasks |->
                IF t[1] = i /\ t[2] \in DOMAIN resp
                THEN RowKey(t[2], month) ELSE key[t]]
    /\ sumToken' = [t \in Tasks |->
                IF t[1] = i /\ t[2] \in DOMAIN resp
                THEN SumTotal(resp[t[2]]) ELSE sumToken[t]]
    /\ prior' = [t \in Tasks |->
                IF t[1] = i /\ t[2] \in DOMAIN resp
                THEN Stored(RowKey(t[2], month)) ELSE prior[t]]

\* await axios.get(apiUrl, ...) and what follows up to Promise.all
FetchMetrics(i) ==
    /\ ipc[i] = "fetch"
    /\ \/ \E ds \in SUBSET Deployments : \E resp \in [ds -> DataSets] :
          \E month \in Months :
            /\ Started + Cardinality(ds) <= MaxTasks
            /\ StartTasks(i, month, resp)
            /\ ipc' = [ipc EXCEPT ![i] = "join"]
            /\ source' = [source EXCEPT ![i] = "ok"]
            /\ UNCHANGED <<store, now, status, sent, entity, err, mails,
                           result, seen, probe>>
       \/ \E error \in {Null} \cup {[status |-> s] : s \in HttpErrorStatuses} :
            Fatal(i, error)

\* await tableClient.getEntity("DeploymentType", rowKey)
GetEntity(t) ==
    /\ tpc[t] = "get"
    /\ \/ /\ key[t] \in DOMAIN store
          /\ Proceed(t, AlertStep(store[key[t]], sumToken[t], now))
          /\ seen' = [seen EXCEPT ![t] = store[key[t]]]
          /\ UNCHANGED err
       \/ /\ key[t] \notin DOMAIN store
          /\ tpc' = [tpc EXCEPT ![t] = "create"]
          /\ entity' = [entity EXCEPT ![t] = NewEntity(key[t], sumToken[t], now)]
          /\ now' = now + 1
          /\ seen' = [seen EXCEPT ![t] = NotFound]
          /\ UNCHANGED <<err, mails>>
       \/ /\ Caught(t, "store")
          /\ UNCHANGED seen
    /\ UNCHANGED <<store, sent, key, sumToken, result, prior>>
    /\ UNCHANGED invVars

\* await tableClient.createEntity(entity): 409 when the rowKey is taken
CreateEntity(t) ==
    /\ tpc[t] = "create"
    /\ \/ IF key[t] \in DOMAIN store
          THEN /\ Caught(t, "conflict")
               /\ UNCHANGED store
          ELSE /\ store' = (key[t] :> entity[t]) @@ store
               /\ Proceed(t, AlertStep(entity[t], sumToken[t], now))
               /\ UNCHANGED err
       \/ /\ Caught(t, "store")
          /\ UNCHANGED store
    /\ UNCHANGED <<sent, key, sumToken, result, seen, prior>>
    /\ UNCHANGED invVars

MailStepRetry(t, r) ==
    IF r = "Succeeded"
    THEN /\ tpc' = [tpc EXCEPT ![t] = "markDone"]
         /\ entity' = [entity EXCEPT ![t] =
                [@ EXCEPT !.ActionDone = TRUE, !.LastUpdated = now]]
         /\ now' = now + 1
         /\ UNCHANGED <<err, mails>>
    ELSE /\ tpc' = [tpc EXCEPT ![t] = "send"]
         /\ mails' = [mails EXCEPT ![t] = @ + 1]
         /\ UNCHANGED <<entity, err, now>>
MailStepNotFailed(t, r) ==
    IF r # "Failed"
    THEN /\ tpc' = [tpc EXCEPT ![t] = "markDone"]
         /\ entity' = [entity EXCEPT ![t] =
                [@ EXCEPT !.ActionDone = TRUE, !.LastUpdated = now]]
         /\ now' = now + 1
         /\ UNCHANGED <<err, mails>>
    ELSE Caught(t, "mail")
MailStepUnchecked(t, r) ==
    /\ tpc' = [tpc EXCEPT ![t] = "markDone"]
    /\ entity' = [entity EXCEPT ![t] =
            [@ EXCEPT !.ActionDone = TRUE, !.LastUpdated = now]]
    /\ now' = now + 1
    /\ UNCHANGED <<err, mails>>
\* Lines 85-92: what the task does with the status sendMail returned.
MailStep(t, r) ==
    IF r = "Succeeded"
    THEN /\ tpc' = [tpc EXCEPT ![t] = "markDone"]
         /\ entity' = [entity EXCEPT ![t] =
                [@ EXCEPT !.ActionDone = TRUE, !.LastUpdated = now]]
         /\ now' = now + 1
         /\ UNCHANGED <<err, mails>>
    ELSE Caught(t, "mail")

\* await sendMail(deploymentName, sumToken): the status of the poller, or
\* a throw of beginSend / pollUntilDone
sendMail(t) ==
    /\ tpc[t] = "send"
    /\ \E r \in MailStatuses \cup {"throw"} :
          /\ MailStep(t, r)
          /\ result' = [result EXCEPT ![t] = r]
          /\ sent' = IF r = "Succeeded" THEN sent \cup {key[t]} ELSE sent
    /\ UNCHANGED <<store, key, sumToken, seen, prior>>
    /\ UNCHANGED invVars

\* await tableClient.updateEntity(entity) of line 89
UpdateActionDone(t) ==
    /\ tpc[t] = "markDone"
    /\ \/ IF key[t] \in DOMAIN store
          THEN /\ store' = UpdateEntity(store, entity[t])
               /\ Proceed(t, SumTokenStep(entity[t], sumToken[t], now))
               /\ UNCHANGED err
          ELSE /\ Caught(t, "store")
               /\ UNCHANGED store
       \/ /\ Caught(t, "store")
          /\ UNCHANGED store
    /\ UNCHANGED <<sent, key, sumToken, result, seen, prior>>
    /\ UNCHANGED invVars

\* await tableClient.updateEntity(entity) of line 100
UpdateSumToken(t) ==
    /\ tpc[t] = "updateSum"
    /\ \/ IF key[t] \in DOMAIN store
          THEN /\ store' = UpdateEntity(store, entity[t])
               /\ tpc' = [tpc EXCEPT ![t] = "done"]
               /\ UNCHANGED <<entity, err, mails, now>>
          ELSE /\ Caught(t, "store")
               /\ UNCHANGED store
       \/ /\ Caught(t, "store")
          /\ UNCHANGED store
    /\ UNCHANGED <<sent, key, sumToken, result, seen, prior>>
    /\ UNCHANGED invVars

Ended(t) == tpc[t] \in {"none", "done", "failed"}

ReturnEarly(i) ==
    /\ ipc[i] = "join"
    /\ ipc' = [ipc EXCEPT ![i] = "returned"]
    /\ status' = [status EXCEPT ![i] = 200]
    /\ UNCHANGED <<store, now, source, sent>>
    /\ UNCHANGED taskVars
ReturnRejected(i) ==
    /\ ipc[i] = "join"
    /\ \A t \in Tasks : t[1] = i => Ended(t)
    /\ ipc' = [ipc EXCEPT ![i] = "returned"]
    /\ status' = [status EXCEPT ![i] =
            IF \E t \in Tasks : t[1] = i /\ tpc[t] = "failed"
            THEN 500 ELSE 200]
    /\ UNCHANGED <<store, now, source, sent>>
    /\ UNCHANGED taskVars
\* await Promise.all(promises); return { status: 200, body: "Success" }
Return(i) ==
    /\ ipc[i] = "join"
    /\ \A t \in Tasks : t[1] = i => Ended(t)
    /\ ipc' = [ipc EXCEPT ![i] = "returned"]
    /\ status' = [status EXCEPT ![i] = 200]
    /\ UNCHANGED <<store, now, source, sent>>
    /\ UNCHANGED taskVars

TaskStep(t) ==
    \/ GetEntity(t)
    \/ CreateEntity(t)
    \/ sendMail(t)
    \/ UpdateActionDone(t)
    \/ UpdateSumToken(t)

Next ==
    \/ \E i \in Invocations : Begin(i) \/ GetToken(i) \/ FetchMetrics(i) \/ Return(i)
    \/ \E t \in Tasks : TaskStep(t)

\* Invocations may overlap (overlapping trigger windows, manual re-trigger).
Spec == Init /\ [][Next]_vars

NextSeq ==
    \/ \E i \in Invocations :
          BeginAlone(i) \/ GetToken(i) \/ FetchMetrics(i) \/ Return(i)
    \/ \E t \in Tasks : TaskStep(t)

\* Invocations run one after another: no two reconciliations of one key
\* overlap.
SpecSeq == Init /\ [][NextSeq]_vars

\* Every request a reconciliation awaits is answered in the end (with a
\* result or an error), so a reconciliation that can step does step.
SpecFair == Spec /\ \A t \in Tasks : WF_vars(TaskStep(t))

\* ------------------------------------------------ the policy on its own
\* Arguments shouldSendAlert can be given: no entity or any entity, and
\* any total up to twice the threshold.
PolicyEntities ==
    {Null} \cup {[NewEntity(k, u, 0) EXCEPT !.ActionDone = a] :
                    k \in RowKeys, u \in Usages, a \in BOOLEAN}
PolicyUsages == 0..(2 * THRESHOLD)

InitPolicy ==
    /\ InitOver(<<>>)
    /\ probe \in [entity : PolicyEntities, sumToken : PolicyUsages,
                  done : {FALSE}, answer : {FALSE}]

\* One call of shouldSendAlert(entity, sumToken).
Evaluate ==
    /\ ~probe.done
    /\ probe' = [probe EXCEPT !.done = TRUE,
                    !.answer = shouldSendAlert(probe.entity, probe.sumToken)]
    /\ UNCHANGED <<store, now, ipc, source, status, tpc, key, sumToken,
                   entity, err, mails, result, sent, seen, prior>>

NextPolicy == Evaluate

SpecPolicy == InitPolicy /\ [][NextPolicy]_vars

\* ---------------------------------------------------------------- claims
MaxOf(a, b) == IF a >= b THEN a ELSE b

\* The task has sent every request it will send.
Over(t) == tpc[t] \in {"done", "failed"}

\* C1: a record's ActionDone never goes from true back to false, under any
\* interleaving of overlapping reconciliations of its key.
C1_AlertSentNeverResets ==
    [][\A k \in DOMAIN store : store[k].ActionDone => store'[k].ActionDone]_vars

\* C2: the stored SumToken of a record never decreases from one state to
\* the next, under any interleaving of overlapping reconciliations.
C2_SumTokenNeverDecreases ==
    [][\A k \in DOMAIN store : store'[k].SumToken >= store[k].SumToken]_vars

\* C3: with reconciliations of a key run one after another, a
\* reconciliation that begins when the stored record has ActionDone = true
\* calls sendMail not once and the record keeps ActionDone = true.
C3_NoSecondAlert ==
    \A t \in Tasks :
        (prior[t] # Null /\ prior[t].ActionDone)
            => mails[t] = 0 /\ Stored(key[t]).ActionDone

\* C3 witness: a first reconciliation mailed and stored the flag, and a
\* later one of the same key, with a total above the threshold, ran to
\* its end without a sendMail call.
C3_Witness ==
    \E t1 \in Tasks, t2 \in Tasks :
        /\ t1 # t2 /\ key[t1] = key[t2]
        /\ result[t1] = "Succeeded" /\ tpc[t1] = "done"
        /\ prior[t2] # Null /\ prior[t2].ActionDone
        /\ sumToken[t2] > THRESHOLD
        /\ tpc[t2] = "done" /\ mails[t2] = 0
        /\ Stored(key[t2]).ActionDone

\* C4: a reconciliation whose createEntity meets AlreadyExists goes on as
\* if the record had been there: it does not end in the error outcome
\* because of the conflict.
C4_CreateRaceIsBenign ==
    \A t \in Tasks : err[t] # "conflict"

\* C5 as claimed: when the policy said true and sendMail did not return
\* "Succeeded", the stored ActionDone is false at the step that ends the
\* reconciliation.
C5_FlagFalseAtFailedEnd ==
    [][\A t \in Tasks :
          (tpc[t] = "send" /\ tpc'[t] = "failed")
              => ~store'[key[t]].ActionDone]_vars

\* C5 as amended: when the policy said true and sendMail did not return
\* "Succeeded", the reconciliation ends there in its failure outcome with
\* its local ActionDone false and without a store write, so it never
\* writes ActionDone = true; the stored flag is what it was before.
C5_FailedMailWritesNothing ==
    [][\A t \in Tasks :
          result'[t] \notin {"none", "Succeeded"}
              => /\ tpc'[t] = "failed"
                 /\ err'[t] = "mail"
                 /\ ~entity'[t].ActionDone
                 /\ (result[t] = "none" => store' = store)]_vars

\* C5 witness: a reconciliation whose sendMail returned "Canceled" has
\* ended in failure over a record whose ActionDone is false.
C5_Witness ==
    \E t \in Tasks :
        /\ result[t] = "Canceled"
        /\ tpc[t] = "failed" /\ err[t] = "mail"
        /\ ~Stored(key[t]).ActionDone

\* C6: a stored record has ActionDone = true only if a sendMail for its
\* rowKey has returned "Succeeded" before.
C6_FlagOnlyAfterSuccess ==
    \A k \in DOMAIN store : store[k].ActionDone => k \in sent

\* C6 witness: a reconciliation that began without the flag has mailed
\* with success and stored ActionDone = true.
C6_Witness ==
    \E t \in Tasks :
        /\ prior[t] = Null \/ ~prior[t].ActionDone
        /\ result[t] = "Succeeded"
        /\ tpc[t] = "done"
        /\ Stored(key[t]).ActionDone

\* C7: with no store failure and no overlap, the stored SumToken at the
\* step that ends a reconciliation is max(previous SumToken, sumToken)
\* (sumToken when there was no record), whatever sendMail returned.
C7_SumTokenIsMaxAtEnd ==
    [][\A t \in Tasks :
          (~Over(t) /\ Over(t)' /\ err'[t] \notin {"store", "conflict"})
              => store'[key[t]].SumToken =
                    IF prior[t] = Null THEN sumToken[t]
                    ELSE MaxOf(prior[t].SumToken, sumToken[t])]_vars

\* C8: shouldSendAlert answers true exactly when the total is above
\* THRESHOLD and there is no entity or its ActionDone is false.
C8_PolicyIff ==
    probe.done =>
        (probe.answer <=>
            /\ probe.sumToken > THRESHOLD
            /\ (probe.entity = Null \/ ~probe.entity.ActionDone))

\* C8 witness: the policy answered false at a total of exactly THRESHOLD
\* for an entity whose ActionDone is false.
C8_Witness ==
    /\ probe.done
    /\ probe.entity # Null /\ ~probe.entity.ActionDone
    /\ probe.sumToken = THRESHOLD
    /\ ~probe.answer

\* C9: in an invocation whose metric call succeeded, a reconciliation that
\* failed leaves every other one able to take its next step, the join
\* able to return once all have ended, and the status returned is 200.
C9_FailuresAreIsolated ==
    \A i \in Invocations :
        source[i] = "ok" =>
            /\ \A t \in Tasks :
                  (t[1] = i /\ ~Ended(t)) => ENABLED TaskStep(t)
            /\ (ipc[i] = "join" /\ \A t \in Tasks : t[1] = i => Ended(t))
                  => ENABLED Return(i)
            /\ ipc[i] = "returned" =>
                  /\ status[i] = 200
                  /\ \A t \in Tasks : t[1] = i => Ended(t)

\* C9 witness: an invocation returned after one of its reconciliations
\* failed and another one, which ended later than the failure could stop
\* it, wrote its total and ended well.
C9_Witness ==
    \E i \in Invocations : \E t1 \in Tasks, t2 \in Tasks :
        /\ t1[1] = i /\ t2[1] = i /\ t1 # t2
        /\ ipc[i] = "returned" /\ status[i] = 200
        /\ tpc[t1] = "failed"
        /\ tpc[t2] = "done" /\ result[t2] = "Succeeded"
        /\ Stored(key[t2]).LastUpdated > 0

\* C10: when the token or the metric call fails, the invocation returns a
\* status outside 2xx and no reconciliation of it ever starts: no store
\* request and no sendMail call is made for it.
C10_SourceFailureIsFatal ==
    \A i \in Invocations :
        source[i] = "failed" =>
            /\ ipc[i] = "returned"
            /\ status[i] \notin 200..299
            /\ \A t \in Tasks :
                  t[1] = i => /\ tpc[t] = "none"
                              /\ seen[t] = Null
                              /\ entity[t] = Null
                              /\ mails[t] = 0

\* C10 witness: an invocation whose metric call was answered 503 returned
\* that status.
C10_Witness ==
    \E i \in Invocations : source[i] = "failed" /\ status[i] = 503

\* The rowKeys other than k hold what they held.
OthersUnchanged(k) ==
    \A k2 \in RowKeys \ {k} :
        /\ k2 \in DOMAIN store' <=> k2 \in DOMAIN store
        /\ k2 \in DOMAIN store => store'[k2] = store[k2]

\* Task t took the step.
Stepped(t) == tpc[t] # "none" /\ tpc'[t] # tpc[t]

\* C11: under any interleaving, a reconciliation with a total above
\* THRESHOLD that ended without failure has a "Succeeded" sendMail for its
\* rowKey at or before its end: the alert is never lost.
C11_AlertNeverLost ==
    \A t \in Tasks :
        (tpc[t] = "done" /\ sumToken[t] > THRESHOLD) => key[t] \in sent

\* C11 witness: two overlapping reconciliations of one rowKey, both above
\* the threshold, both mailed with success and ended: a duplicate alert.
C11_Witness ==
    \E t1 \in Tasks, t2 \in Tasks :
        /\ t1 # t2 /\ key[t1] = key[t2]
        /\ sumToken[t1] > THRESHOLD /\ sumToken[t2] > THRESHOLD
        /\ result[t1] = "Succeeded" /\ result[t2] = "Succeeded"
        /\ tpc[t1] = "done" /\ tpc[t2] = "done"

\* The record of rowKey k exists with ActionDone = true.
Flagged(k) == k \in DOMAIN store /\ store[k].ActionDone

\* C12: the alert is retried.  A reconciliation with a total above
\* THRESHOLD that reads a record still unflagged, as a failed sendMail of
\* an earlier reconciliation of the rowKey left it, calls sendMail again;
\* and every reconciliation with a total above THRESHOLD leads to its own
\* failure or to a stored ActionDone = true, so that once the store and
\* the mail service stop failing the record has ActionDone = true.
C12_AlertRetried ==
    /\ [](\A t1 \in Tasks, t2 \in Tasks :
            (/\ t1 # t2 /\ key[t1] = key[t2] /\ err[t1] = "mail"
             /\ seen[t2] \notin {Null, NotFound}
             /\ ~seen[t2].ActionDone
             /\ sumToken[t2] > THRESHOLD)
                => mails[t2] = 1)
    /\ \A t \in Tasks :
          (tpc[t] = "get" /\ sumToken[t] > THRESHOLD)
              ~> (tpc[t] = "failed" \/ Flagged(key[t]))

\* C12 witness: a reconciliation ended by a failed sendMail, and another
\* one of the same rowKey, which read the record unflagged, mailed with
\* success and stored ActionDone = true.
C12_Witness ==
    \E t1 \in Tasks, t2 \in Tasks :
        /\ t1 # t2 /\ key[t1] = key[t2]
        /\ tpc[t1] = "failed" /\ err[t1] = "mail"
        /\ seen[t2] \notin {Null, NotFound} /\ ~seen[t2].ActionDone
        /\ mails[t2] = 1 /\ result[t2] = "Succeeded"
        /\ tpc[t2] = "done"
        /\ Stored(key[t2]).ActionDone

\* C13: an invocation has returned only when every reconciliation it
\* started has ended.
C13_ReturnAfterAllEnded ==
    \A i \in Invocations :
        ipc[i] = "returned" => \A t \in Tasks : t[1] = i => Ended(t)

\* C13 witness: an invocation returned 200 after two reconciliations, one
\* ended by a store failure and one by a mail failure.
C13_Witness ==
    \E i \in Invocations : \E t1 \in Tasks, t2 \in Tasks :
        /\ t1[1] = i /\ t2[1] = i
        /\ ipc[i] = "returned" /\ status[i] = 200
        /\ tpc[t1] = "failed" /\ err[t1] = "store"
        /\ tpc[t2] = "failed" /\ err[t2] = "mail"

\* C14: a reconciliation with a total of at most THRESHOLD never calls
\* sendMail and no step of it changes a stored ActionDone.
C14_LowTotalLeavesFlag ==
    [][\A t \in Tasks :
          (Stepped(t) /\ sumToken[t] <= THRESHOLD)
              => /\ mails'[t] = 0
                 /\ \A k \in DOMAIN store :
                       store'[k].ActionDone = store[k].ActionDone]_vars

\* C15: a reconciliation that read an existing record, with no alert due
\* (ActionDone true or total at most THRESHOLD) and a total not above the
\* SumToken read, ends at once and its step leaves the table as it was.
C15_NoWriteWhenNothingToDo ==
    [][\A t \in Tasks :
          (/\ seen'[t] \notin {Null, NotFound}
           /\ seen'[t].ActionDone \/ sumToken'[t] <= THRESHOLD
           /\ sumToken'[t] <= seen'[t].SumToken)
              => /\ tpc'[t] = "done"
                 /\ mails'[t] = 0
                 /\ Stepped(t) => store' = store]_vars

\* C15 witness: over a record with SumToken 1000 and ActionDone false, a
\* reconciliation with total 999 ended and the record, LastUpdated
\* included, is the one it read (scenario C).
C15_Witness ==
    \E t \in Tasks :
        /\ seen[t] \notin {Null, NotFound}
        /\ ~seen[t].ActionDone
        /\ seen[t].SumToken = THRESHOLD /\ sumToken[t] = THRESHOLD - 1
        /\ tpc[t] = "done"
        /\ Stored(key[t]) = seen[t]

\* C16: without overlap, a reconciliation that found no record and has a
\* total above THRESHOLD creates the record with SumToken = total and
\* ActionDone = false and calls sendMail; if nothing fails it ends with
\* one sendMail call made, ActionDone = true and SumToken = total stored.
C16_FirstAlert ==
    [][\A t \in Tasks :
          (seen[t] = NotFound /\ sumToken[t] > THRESHOLD /\ Stepped(t))
              => /\ (tpc[t] = "create" /\ tpc'[t] # "failed")
                       => /\ tpc'[t] = "send" /\ mails'[t] = 1
                          /\ store'[key[t]].SumToken = sumToken[t]
                          /\ ~store'[key[t]].ActionDone
                 /\ Over(t)' /\ err'[t] = "none"
                       => /\ tpc'[t] = "done" /\ mails'[t] = 1
                          /\ store'[key[t]].SumToken = sumToken[t]
                          /\ store'[key[t]].ActionDone]_vars

\* C16 witness: a reconciliation that found no record, with total 1001,
\* ended well after one sendMail call, the record flagged (scenario A).
C16_Witness ==
    \E t \in Tasks :
        /\ seen[t] = NotFound /\ sumToken[t] > THRESHOLD
        /\ tpc[t] = "done" /\ mails[t] = 1 /\ result[t] = "Succeeded"
        /\ Stored(key[t]).ActionDone
        /\ Stored(key[t]).SumToken = sumToken[t]

\* C17: once a store operation of a reconciliation has failed, the
\* reconciliation stays ended: it makes no sendMail call, changes nothing
\* of its own and every later change of the table is another task's step.
C17_StoreFailureStops ==
    [][\A t \in Tasks :
          err'[t] \in {"store", "conflict"}
              => /\ tpc'[t] = "failed"
                 /\ mails'[t] = mails[t]
                 /\ entity'[t] = entity[t]
                 /\ result'[t] = result[t]
                 /\ store' # store
                       => \E t2 \in Tasks \ {t} : Stepped(t2)]_vars

\* C17 witness: sendMail returned "Succeeded", the update of line 89
\* failed, and the stored ActionDone is false.
C17_Witness ==
    \E t \in Tasks :
        /\ result[t] = "Succeeded"
        /\ tpc[t] = "failed" /\ err[t] = "store"
        /\ ~Stored(key[t]).ActionDone

\* C18: a reconciliation calls sendMail at most once on every path.
C18_AtMostOneMail ==
    \A t \in Tasks : mails[t] <= 1

\* C18 witness: a reconciliation ended in failure by a throw of sendMail
\* after its one call.
C18_Witness ==
    \E t \in Tasks :
        /\ tpc[t] = "failed" /\ err[t] = "mail" /\ result[t] = "throw"
        /\ mails[t] = 1

\* C19: the rowKey of a reconciliation is deploymentName-month, the record
\* it writes carries that rowKey under partitionKey "DeploymentType", and
\* its steps leave the records of every other rowKey unchanged.
C19_OnlyOwnRecord ==
    [][\A t \in Tasks :
          Stepped(t)
              => /\ \E m \in {"2024-10"} : key[t] = t[2] \o "-" \o m
                 /\ OthersUnchanged(key[t])
                 /\ key[t] \in DOMAIN store'
                       => /\ store'[key[t]].rowKey = key[t]
                          /\ store'[key[t]].partitionKey = "DeploymentType"]_vars

\* C19 witness: two reconciliations of one invocation for two deployments
\* ended, one having flagged its record, the other's record unflagged.
C19_Witness ==
    \E t1 \in Tasks, t2 \in Tasks :
        /\ t1[1] = t2[1] /\ key[t1] # key[t2]
        /\ tpc[t1] = "done" /\ result[t1] = "Succeeded"
        /\ tpc[t2] = "done" /\ sumToken[t2] <= THRESHOLD
        /\ Stored(key[t1]).ActionDone
        /\ Stored(key[t2]) # Null /\ ~Stored(key[t2]).ActionDone

====
